---- MODULE Spec2Model ----
(***************************************************************************)
(* Model of src/src/data_preprocessing.py: the 70/15/15 stratified split,  *)
(* the median imputation of bmi, the label encoding of work_type and       *)
(* smoking_status, the binarisation of ever_married and the three output   *)
(* files.                                                                  *)
(*                                                                         *)
(* A frame is [columns |-> sequence of names, data |-> [index -> row]], a  *)
(* row a function from column name to cell.  A nullable cell is <<>> when  *)
(* missing (NaN) and <<v>> when it holds v; an encoded cell is an integer. *)
(* bmi is counted in units of 0.05, so that the values of a csv file are   *)
(* even and the mean of two of them is exact.                              *)
(***************************************************************************)
EXTENDS Integers, Sequences, FiniteSets, TLC

VARIABLES
    pc,          \* the position in main
    df,          \* the table read from RAW_DATA_PATH
    train_idx, temp_idx, val_idx, test_idx,
                 \* the index labels of X_train/y_train, X_temp/y_temp, ...
    df_train, df_val, df_test,
    median_bmi,
    k,           \* the position of the loop over cat_multi
    le,          \* classes_ of the LabelEncoder of apply_label_encoding
    fs,          \* the output directory and the files written
    given,       \* history: the three partitions before any preprocessing
    vocab,       \* history: classes_ of each column as create_label_encoder
                 \* returned it
    first,       \* history: the statistics fitted by a first run
    strata       \* the class counts of the partitions, when only the
                 \* counts are followed

vars == <<pc, df, train_idx, temp_idx, val_idx, test_idx,
          df_train, df_val, df_test, median_bmi, k, le, fs,
          given, vocab, first, strata>>

(***************************************************************************)
(* Bounds of the model                                                     *)
(***************************************************************************)
MaxTrainLen == 2
MaxEvalLen == 1
NumRows == 11
SmallRows == 1000
ExampleRows == 5110
RowSpan == 2
MaxPositives == 260

(***************************************************************************)
(* Cells, series and frames (pandas)                                       *)
(***************************************************************************)
NaN == <<>>

\* the value of a name that is not assigned yet
Unassigned == [unassigned |-> TRUE]

Range(f) == {f[i] : i \in DOMAIN f}

Frame(cols, data) == [columns |-> cols, data |-> data]

HasColumn(f, c) == \E j \in 1..Len(f.columns) : f.columns[j] = c

Column(f, c) == [i \in DOMAIN f.data |-> f.data[i][c]]

\* df[c] = s on a frame that has the column c
SetColumn(f, c, s) ==
    [f EXCEPT !.data = [i \in DOMAIN f.data |-> [f.data[i] EXCEPT ![c] = s[i]]]]

\* Series.fillna(value): a missing cell takes value, and stays missing when
\* value is itself NaN
fillna(s, value) == [i \in DOMAIN s |-> IF s[i] = NaN THEN value ELSE s[i]]

RECURSIVE SortedValues(_, _)
SortedValues(s, I) ==
    IF I = {} THEN <<>>
    ELSE LET m == CHOOSE i \in I : \A j \in I : s[i][1] <= s[j][1]
         IN  <<s[m][1]>> \o SortedValues(s, I \ {m})

\* Series.median(): the median of the values that are not missing, NaN when
\* there is none
median(s) ==
    LET v == SortedValues(s, {i \in DOMAIN s : s[i] # NaN})
        n == Len(v)
    IN  IF n = 0 THEN NaN
        ELSE IF n % 2 = 1 THEN <<v[(n + 1) \div 2]>>
        ELSE <<(v[n \div 2] + v[n \div 2 + 1]) \div 2>>

\* str(x) of a cell: a missing cell becomes the string "nan"
str(x) == IF x = NaN THEN "nan" ELSE x[1]

\* Series.astype(str)
astype_str(s) == [i \in DOMAIN s |-> str(s[i])]

\* The strings of the model in the order of Python's sorted()
StrOrder == <<"Private", "Self-employed", "UNK", "Unknown", "children", "nan",
              "never smoked", "smokes">>

(***************************************************************************)
(* Imputation                                                              *)
(***************************************************************************)
\* mutant: the median is returned and the imputed column is not assigned
calculate_median_only(f, column) ==
    [df |-> f, median_value |-> median(Column(f, column))]

\* mutant: the median is taken over the training and the validation rows
calculate_median_pooled(f, column) ==
    LET s == Column(f, column)
        v == Column(df_val, column)
        n == Cardinality(DOMAIN s)
        pooled == [j \in 0..(n + Cardinality(DOMAIN v) - 1) |->
                      IF j < n THEN s[j] ELSE v[j - n]]
        median_value == median(pooled)
    IN  [df |-> SetColumn(f, column, fillna(s, median_value)),
         median_value |-> median_value]

calculate_median_and_impute(f, column) ==
    LET median_value == median(Column(f, column))
    IN  [df |-> SetColumn(f, column, fillna(Column(f, column), median_value)),
         median_value |-> median_value]

apply_impute(f, column, impute_value) ==
    SetColumn(f, column, fillna(Column(f, column), impute_value))

(***************************************************************************)
(* Label encoding                                                          *)
(***************************************************************************)
cat_multi == <<"work_type", "smoking_status">>

\* LabelEncoder().fit(train_series.astype(str)).classes_ : the sorted
\* distinct strings of the column
create_label_encoder(train_series) ==
    LET Seen(s) == s \in Range(astype_str(train_series))
    IN  SelectSeq(StrOrder, Seen)

\* le.transform: the position of the label in classes_, counted from 0;
\* a label that is not in classes_ raises ValueError
Unseen(classes_, s) == \A j \in 1..Len(classes_) : classes_[j] # s

transform(classes_, s) ==
    (CHOOSE j \in 1..Len(classes_) : classes_[j] = s) - 1

\* lines 65-66: a cell that is not an element of le.classes_ (a missing
\* cell never is: NaN equals no string) becomes None and then "UNK"
mask_unknown(s, classes_) ==
    [i \in DOMAIN s |->
        IF s[i] # NaN /\ ~Unseen(classes_, s[i][1]) THEN s[i][1] ELSE "UNK"]

\* mutant: the classes are sorted again once "UNK" is added
append_unk_sorted(classes_) ==
    SelectSeq(StrOrder, LAMBDA s : s = "UNK" \/ ~Unseen(classes_, s))

\* lines 67-69
append_unk(classes_) ==
    IF Unseen(classes_, "UNK") THEN Append(classes_, "UNK") ELSE classes_

\* mutant: "UNK" is encoded like any other label
encode_masked_noguard(s, classes_) ==
    [i \in DOMAIN s |-> transform(classes_, s[i])]

\* line 70
encode_masked(s, classes_) ==
    [i \in DOMAIN s |-> IF s[i] = "UNK" THEN -1 ELSE transform(classes_, s[i])]

MaskedRaises(s, classes_) ==
    \E i \in DOMAIN s : s[i] # "UNK" /\ Unseen(classes_, s[i])

\* line 59
Fit ==
    /\ pc = "fit"
    /\ le' = create_label_encoder(Column(df_train, cat_multi[k]))
    /\ vocab' = [vocab EXCEPT ![cat_multi[k]] = le']
    /\ pc' = "transform_train"
    /\ UNCHANGED <<df, train_idx, temp_idx, val_idx, test_idx, df_train,
                   df_val, df_test, median_bmi, k, fs, given, first, strata>>

\* line 61
TransformTrain ==
    /\ pc = "transform_train"
    /\ LET s == astype_str(Column(df_train, cat_multi[k]))
       IN  IF \E i \in DOMAIN s : Unseen(le, s[i])
           THEN pc' = "ValueError" /\ UNCHANGED df_train
           ELSE /\ pc' = "loop_val"
                /\ df_train' = SetColumn(df_train, cat_multi[k],
                                   [i \in DOMAIN s |-> transform(le, s[i])])
    /\ UNCHANGED <<df, train_idx, temp_idx, val_idx, test_idx, df_val,
                   df_test, median_bmi, k, le, fs, given, vocab, first, strata>>

\* lines 65-70 for one frame of the loop
LoopBody(f) ==
    LET masked == mask_unknown(Column(f, cat_multi[k]), le)
        classes_ == append_unk(le)
    IN  [le |-> classes_,
         raises |-> MaskedRaises(masked, classes_),
         df |-> SetColumn(f, cat_multi[k], encode_masked(masked, classes_))]

LoopVal ==
    /\ pc = "loop_val"
    /\ LET r == LoopBody(df_val)
       IN  /\ le' = r.le
           /\ IF r.raises
              THEN pc' = "ValueError" /\ UNCHANGED df_val
              ELSE pc' = "loop_test" /\ df_val' = r.df
    /\ UNCHANGED <<df, train_idx, temp_idx, val_idx, test_idx, df_train,
                   df_test, median_bmi, k, fs, given, vocab, first, strata>>

LoopTest ==
    /\ pc = "loop_test"
    /\ LET r == LoopBody(df_test)
       IN  /\ le' = r.le
           /\ IF r.raises
              THEN pc' = "ValueError" /\ UNCHANGED <<df_test, k>>
              ELSE pc' = "cat_loop" /\ df_test' = r.df /\ k' = k + 1
    /\ UNCHANGED <<df, train_idx, temp_idx, val_idx, test_idx, df_train,
                   df_val, median_bmi, fs, given, vocab, first, strata>>

\* lines 129-130
CatLoop ==
    /\ pc = "cat_loop"
    /\ IF k > Len(cat_multi) THEN pc' = "binarise" /\ UNCHANGED k
       ELSE IF HasColumn(df_train, cat_multi[k]) THEN pc' = "fit" /\ UNCHANGED k
       ELSE pc' = "cat_loop" /\ k' = k + 1
    /\ UNCHANGED <<df, train_idx, temp_idx, val_idx, test_idx, df_train,
                   df_val, df_test, median_bmi, le, fs, given, vocab, first, strata>>


(***************************************************************************)
(* Imputation of bmi and binarisation of ever_married in main              *)
(***************************************************************************)
\* lines 118-122
Impute ==
    /\ pc = "impute"
    /\ IF HasColumn(df_train, "bmi")
       THEN LET r == calculate_median_and_impute(df_train, "bmi")
            IN  /\ median_bmi' = r.median_value
                /\ df_train' = r.df
                /\ df_val' = apply_impute(df_val, "bmi", r.median_value)
                /\ df_test' = apply_impute(df_test, "bmi", r.median_value)
       ELSE UNCHANGED <<median_bmi, df_train, df_val, df_test>>
    /\ pc' = "cat_loop"
    /\ UNCHANGED <<df, train_idx, temp_idx, val_idx, test_idx, k, le, fs,
                   given, vocab, first, strata>>

\* Series.map(bin_map): a value that is no key of the map becomes NaN
map_bin(s) ==
    [i \in DOMAIN s |->
        IF s[i] = <<"No">> THEN <<0>>
        ELSE IF s[i] = <<"Yes">> THEN <<1>>
        ELSE NaN]

\* lines 134-138
Binarise ==
    /\ pc = "binarise"
    /\ IF HasColumn(df_train, "ever_married")
       THEN /\ df_train' = SetColumn(df_train, "ever_married",
                               map_bin(Column(df_train, "ever_married")))
            /\ df_val' = SetColumn(df_val, "ever_married",
                             map_bin(Column(df_val, "ever_married")))
            /\ df_test' = SetColumn(df_test, "ever_married",
                              map_bin(Column(df_test, "ever_married")))
       ELSE UNCHANGED <<df_train, df_val, df_test>>
    /\ pc' = "makedirs"
    /\ UNCHANGED <<df, train_idx, temp_idx, val_idx, test_idx, median_bmi, k,
                   le, fs, given, vocab, first, strata>>

(***************************************************************************)
(* The stratified split (sklearn.model_selection.train_test_split)         *)
(***************************************************************************)
RECURSIVE Sum(_, _)
Sum(f, S) ==
    IF S = {} THEN 0
    ELSE LET c == CHOOSE x \in S : TRUE IN f[c] + Sum(f, S \ {c})

\* n_test = ceil(test_size * n) for test_size = num / den, n_train the rest
\* (the floating-point products 0.30 * n and 0.5 * n have the ceiling of the
\* exact ones)
NTest(n, num, den) == (n * num + den - 1) \div den
NTrain(n, num, den) == n - NTest(n, num, den)

\* the number of members of each class of y among the index labels idx
ClassCounts(y, idx) ==
    [c \in {y[i][1] : i \in idx} |-> Cardinality({i \in idx : y[i][1] = c})]

\* StratifiedShuffleSplit refuses a class of one member and a side that has
\* fewer rows than there are classes
SplitRaises(counts, n_train, n_test) ==
    \/ n_train < 1
    \/ \E c \in DOMAIN counts : counts[c] < 2
    \/ n_train < Cardinality(DOMAIN counts)
    \/ n_test < Cardinality(DOMAIN counts)

\* _approximate_mode: each class gets the floor of its share of n_draws and
\* the rows left over go to the classes of largest remainder, ties broken
\* by the random state
ApproximateMode(counts, n_draws) ==
    LET C == DOMAIN counts
        total == Sum(counts, C)
        floored == [c \in C |-> (counts[c] * n_draws) \div total]
        remainder == [c \in C |-> (counts[c] * n_draws) % total]
        need_to_add == n_draws - Sum(floored, C)
    IN  {[c \in C |-> IF c \in A THEN floored[c] + 1 ELSE floored[c]] :
            A \in {B \in SUBSET C :
                     /\ Cardinality(B) = need_to_add
                     /\ \A c \in B : \A d \in C \ B :
                           remainder[c] >= remainder[d]}}

\* mutant: the first split is not stratified, any rows of a binary target
\* make the train side
FirstSplitUnstratified(counts) ==
    LET n_train == NTrain(Sum(counts, DOMAIN counts), 3, 10)
        c0 == CHOOSE c \in DOMAIN counts : TRUE
    IN  {a \in {[c \in DOMAIN counts |-> IF c = c0 THEN j ELSE n_train - j] :
                   j \in 0..counts[c0]} :
            \A c \in DOMAIN counts : a[c] >= 0 /\ a[c] <= counts[c]}

\* lines 89-94: test_size=0.30, stratify=y_full
FirstSplitAllocations(counts) ==
    ApproximateMode(counts, NTrain(Sum(counts, DOMAIN counts), 3, 10))

\* lines 96-101: test_size=0.5, stratify=y_temp
SecondSplitAllocations(counts) ==
    ApproximateMode(counts, NTrain(Sum(counts, DOMAIN counts), 1, 2))

\* the train sides a split of idx can return for the allocations allocs;
\* the test side is the rest of idx
TrainSides(idx, y, allocs) ==
    {I \in SUBSET idx :
        \E a \in allocs :
            \A c \in DOMAIN a : Cardinality({i \in I : y[i][1] = c}) = a[c]}

(***************************************************************************)
(* main                                                                    *)
(***************************************************************************)
TARGET_COLUMN == "stroke"
features_to_remove == {"id", "gender", "Residence_type"}

FullSchema == <<"id", "gender", "ever_married", "work_type", "Residence_type",
                "bmi", "smoking_status", "stroke">>

\* the schemas of the input tables: the full one and the ones that lack
\* one of its columns
Schemas ==
    {FullSchema} \cup
    {SelectSeq(FullSchema, LAMBDA c : c # FullSchema[j]) : j \in 1..Len(FullSchema)}

Index == 0..(NumRows - 1)

\* the cell of row i in column c, for p positive rows and the set M of rows
\* without bmi
InputCell(c, i, p, M) ==
    CASE c = "id" -> <<i>>
      [] c = "gender" -> IF i % 2 = 0 THEN <<"Male">> ELSE <<"Female">>
      [] c = "ever_married" -> IF i % 2 = 0 THEN <<"Yes">> ELSE <<"No">>
      [] c = "work_type" ->
            CASE i % 4 = 0 -> <<"Private">>
              [] i % 4 = 1 -> <<"children">>
              [] i % 4 = 2 -> <<"Self-employed">>
              [] OTHER -> NaN
      [] c = "Residence_type" -> <<"Urban">>
      [] c = "bmi" -> IF i \in M THEN NaN ELSE <<400 + 20 * i>>
      [] c = "smoking_status" ->
            CASE i % 3 = 0 -> <<"never smoked">>
              [] i % 3 = 1 -> <<"smokes">>
              [] OTHER -> <<"Unknown">>
      [] OTHER -> IF i < p THEN <<1>> ELSE <<0>>

InputTable(schema, p, M) ==
    Frame(schema, [i \in Index |-> [c \in Range(schema) |-> InputCell(c, i, p, M)]])

\* the sets of rows without bmi: none, all, all but two, two
MissingSets == {{}, Index, Index \ {0, NumRows - 1}, {0, NumRows - 1}}

\* the tables read_csv can return in the model: 5 positive rows with each
\* schema and each set of rows without bmi, and the full schema with 0, 1
\* and 3 positive rows
Inputs ==
    {InputTable(s, 5, M) : s \in Schemas, M \in MissingSets} \cup
    {InputTable(FullSchema, p, {}) : p \in {0, 1, 3}}

\* line 78
ReadCsv ==
    /\ pc = "start"
    /\ df' \in Inputs
    /\ pc' = "check_target"
    /\ UNCHANGED <<train_idx, temp_idx, val_idx, test_idx, df_train, df_val,
                   df_test, median_bmi, k, le, fs, given, vocab, first, strata>>

\* mutant: the check looks for another column than the target
TargetAbsentOtherName(f) == ~HasColumn(f, "id")

\* line 82
TargetAbsent(f) == ~HasColumn(f, TARGET_COLUMN)

\* lines 82-83
CheckTarget ==
    /\ pc = "check_target"
    /\ pc' = IF TargetAbsent(df) THEN "ValueError" ELSE "split1"
    /\ UNCHANGED <<df, train_idx, temp_idx, val_idx, test_idx, df_train,
                   df_val, df_test, median_bmi, k, le, fs, given, vocab,
                   first, strata>>

\* lines 85-94; df.drop and df[...] raise KeyError for a column that is absent
Split1 ==
    /\ pc = "split1"
    /\ IF ~HasColumn(df, TARGET_COLUMN)
       THEN pc' = "KeyError" /\ UNCHANGED <<train_idx, temp_idx>>
       ELSE LET y_full == Column(df, TARGET_COLUMN)
                idx == DOMAIN df.data
                counts == ClassCounts(y_full, idx)
                n == Cardinality(idx)
            IN  IF SplitRaises(counts, NTrain(n, 3, 10), NTest(n, 3, 10))
                THEN pc' = "ValueError" /\ UNCHANGED <<train_idx, temp_idx>>
                ELSE /\ train_idx' \in
                           TrainSides(idx, y_full, FirstSplitAllocations(counts))
                     /\ temp_idx' = idx \ train_idx'
                     /\ pc' = "split2"
    /\ UNCHANGED <<df, val_idx, test_idx, df_train, df_val, df_test,
                   median_bmi, k, le, fs, given, vocab, first, strata>>

\* mutant: the second split divides X_full, y_full
SecondSplitPoolFull == DOMAIN df.data

\* line 97: the rows the second split divides are X_temp, y_temp
SecondSplitPool == temp_idx

\* lines 96-101
Split2 ==
    /\ pc = "split2"
    /\ LET y_temp == Column(df, TARGET_COLUMN)
           idx == SecondSplitPool
           counts == ClassCounts(y_temp, idx)
           n == Cardinality(idx)
       IN  IF SplitRaises(counts, NTrain(n, 1, 2), NTest(n, 1, 2))
           THEN pc' = "ValueError" /\ UNCHANGED <<val_idx, test_idx>>
           ELSE /\ val_idx' \in
                      TrainSides(idx, y_temp, SecondSplitAllocations(counts))
                /\ test_idx' = idx \ val_idx'
                /\ pc' = "drop"
    /\ UNCHANGED <<df, train_idx, temp_idx, df_train, df_val, df_test,
                   median_bmi, k, le, fs, given, vocab, first, strata>>

\* DataFrame.drop(columns=..., errors='ignore') on the column names
drop(cols, names) == SelectSeq(cols, LAMBDA c : c \notin names)

\* line 85
X_full_columns == drop(df.columns, {TARGET_COLUMN})

\* mutant: the features are not removed from X_val
X_val_columns_kept == X_full_columns

\* lines 105, 106, 107
X_train_columns == drop(X_full_columns, features_to_remove)
X_val_columns == drop(X_full_columns, features_to_remove)
X_test_columns == drop(X_full_columns, features_to_remove)

\* pd.concat([X, y], axis=1) for the rows idx of df: the columns of X and
\* then the target
concat(X_columns, idx) ==
    LET cols == Append(X_columns, TARGET_COLUMN)
    IN  Frame(cols, [i \in idx |-> [c \in Range(cols) |-> df.data[i][c]]])

\* lines 103-112
DropConcat ==
    /\ pc = "drop"
    /\ df_train' = concat(X_train_columns, train_idx)
    /\ df_val' = concat(X_val_columns, val_idx)
    /\ df_test' = concat(X_test_columns, test_idx)
    /\ given' = [train |-> df_train', val |-> df_val', test |-> df_test']
    /\ pc' = "impute"
    /\ UNCHANGED <<df, train_idx, temp_idx, val_idx, test_idx, median_bmi, k,
                   le, fs, vocab, first, strata>>

\* line 145
MakeDirs ==
    /\ pc = "makedirs"
    /\ fs' = [fs EXCEPT !.dir = TRUE]
    /\ pc' = "write_train"
    /\ UNCHANGED <<df, train_idx, temp_idx, val_idx, test_idx, df_train,
                   df_val, df_test, median_bmi, k, le, given, vocab, first,
                   strata>>

\* to_csv(path, index=False)
to_csv(files, path, f) == Append(files, [path |-> path, frame |-> f])

\* lines 142, 147
WriteTrain ==
    /\ pc = "write_train"
    /\ fs' = [fs EXCEPT !.files = to_csv(@, "TRAIN_DATA_PATH", df_train)]
    /\ pc' = "write_val"
    /\ UNCHANGED <<df, train_idx, temp_idx, val_idx, test_idx, df_train,
                   df_val, df_test, median_bmi, k, le, given, vocab, first,
                   strata>>

\* line 148
WriteVal ==
    /\ pc = "write_val"
    /\ fs' = [fs EXCEPT !.files = to_csv(@, "VALIDATION_DATA_PATH", df_val)]
    /\ pc' = "write_test"
    /\ UNCHANGED <<df, train_idx, temp_idx, val_idx, test_idx, df_train,
                   df_val, df_test, median_bmi, k, le, given, vocab, first,
                   strata>>

\* line 149
WriteTest ==
    /\ pc = "write_test"
    /\ fs' = [fs EXCEPT !.files = to_csv(@, "TEST_DATA_PATH", df_test)]
    /\ pc' = "done"
    /\ UNCHANGED <<df, train_idx, temp_idx, val_idx, test_idx, df_train,
                   df_val, df_test, median_bmi, k, le, given, vocab, first,
                   strata>>

NoVocab == [c \in Range(cat_multi) |-> <<>>]
NoFs == [dir |-> FALSE, files |-> <<>>]

Init ==
    /\ pc = "start"
    /\ df = Unassigned
    /\ train_idx = {} /\ temp_idx = {} /\ val_idx = {} /\ test_idx = {}
    /\ df_train = Unassigned /\ df_val = Unassigned /\ df_test = Unassigned
    /\ median_bmi = Unassigned
    /\ k = 1
    /\ le = <<>>
    /\ fs = NoFs
    /\ given = Unassigned
    /\ vocab = NoVocab
    /\ first = Unassigned
    /\ strata = Unassigned

Next ==
    \/ ReadCsv \/ CheckTarget \/ Split1 \/ Split2 \/ DropConcat
    \/ Impute \/ CatLoop \/ Fit \/ TransformTrain \/ LoopVal \/ LoopTest
    \/ Binarise \/ MakeDirs \/ WriteTrain \/ WriteVal \/ WriteTest

Spec == Init /\ [][Next]_vars

(***************************************************************************)
(* The preprocessing of main (lines 116-138) on bounded partitions         *)
(***************************************************************************)
BmiCells == {NaN, <<400>>, <<500>>, <<640>>}
CatCells == {NaN, <<"Private">>, <<"UNK">>, <<"children">>}

CellsOf(c) == IF c = "bmi" THEN BmiCells ELSE CatCells

\* the cells of the two runs
TwoRunCellsOf(c) ==
    IF c = "bmi" THEN BmiCells \ {<<500>>} ELSE CatCells \ {<<"UNK">>}

\* the frames of at most n rows whose one column is c
OneColumnFrames(c, n, cells) ==
    UNION {{Frame(<<c>>, d) : d \in [0..(m - 1) -> [{c} -> cells]]} :
             m \in 1..n}

\* three partitions of one column c
BoundedPartitions(c, cells) ==
    /\ df_train \in OneColumnFrames(c, MaxTrainLen, cells)
    /\ df_val \in OneColumnFrames(c, MaxEvalLen, cells)
    /\ df_test \in OneColumnFrames(c, MaxEvalLen, cells)

\* main at line 116, the partitions being built
AtPreprocessing ==
    /\ pc = "impute"
    /\ k = 1
    /\ given = [train |-> df_train, val |-> df_val, test |-> df_test]
    /\ df = Unassigned
    /\ train_idx = {} /\ temp_idx = {} /\ val_idx = {} /\ test_idx = {}
    /\ median_bmi = Unassigned
    /\ le = <<>>
    /\ fs = NoFs
    /\ vocab = NoVocab
    /\ first = Unassigned
    /\ strata = Unassigned

InitPrep ==
    /\ \E c \in {"bmi"} \cup Range(cat_multi) : BoundedPartitions(c, CellsOf(c))
    /\ AtPreprocessing


NextPrep == Impute \/ CatLoop \/ Fit \/ TransformTrain \/ LoopVal \/ LoopTest

SpecPrep == InitPrep /\ [][NextPrep]_vars

(***************************************************************************)
(* Two runs on the same training partition: when the preprocessing of a    *)
(* first run is over, a second run starts from the same training rows and  *)
(* other validation and test rows.                                         *)
(***************************************************************************)
\* lines 163-164, a second time
Rerun ==
    /\ pc = "binarise"
    /\ first = Unassigned
    /\ df_train' = given.train
    /\ df_val' \in OneColumnFrames(given.val.columns[1], MaxEvalLen,
                                   TwoRunCellsOf(given.val.columns[1]))
    /\ df_test' \in OneColumnFrames(given.test.columns[1], MaxEvalLen,
                                    TwoRunCellsOf(given.test.columns[1]))
    /\ first' = [train |-> given.train, median_bmi |-> median_bmi,
                 vocab |-> vocab, le |-> le,
                 differs |-> df_val' # given.val /\ df_test' # given.test]
    /\ given' = [train |-> df_train', val |-> df_val', test |-> df_test']
    /\ pc' = "impute"
    /\ k' = 1
    /\ median_bmi' = Unassigned
    /\ le' = <<>>
    /\ vocab' = NoVocab
    /\ UNCHANGED <<df, train_idx, temp_idx, val_idx, test_idx, fs, strata>>

NextLeak == NextPrep \/ Rerun

InitLeak ==
    /\ \E c \in {"bmi"} \cup Range(cat_multi) :
          BoundedPartitions(c, TwoRunCellsOf(c))
    /\ AtPreprocessing

SpecLeak == InitLeak /\ [][NextLeak]_vars

(***************************************************************************)
(* The two splits of main on the class counts alone, for tables of the     *)
(* size of the real data                                                   *)
(***************************************************************************)
RowCounts ==
    {SmallRows + j : j \in 0..RowSpan} \cup {ExampleRows + j : j \in 0..RowSpan}

\* the classes that have a member
Present(counts) == [c \in {d \in DOMAIN counts : counts[d] > 0} |-> counts[c]]

InitStrat ==
    /\ pc = "split1"
    /\ \E n \in RowCounts : \E p \in 1..MaxPositives :
         strata = [full |-> [c \in {0, 1} |-> IF c = 1 THEN p ELSE n - p],
                   train |-> Unassigned, temp |-> Unassigned, val |-> Unassigned, test |-> Unassigned]
    /\ df = Unassigned
    /\ train_idx = {} /\ temp_idx = {} /\ val_idx = {} /\ test_idx = {}
    /\ df_train = Unassigned /\ df_val = Unassigned /\ df_test = Unassigned
    /\ median_bmi = Unassigned
    /\ k = 1
    /\ le = <<>>
    /\ fs = NoFs
    /\ given = Unassigned
    /\ vocab = NoVocab
    /\ first = Unassigned

\* lines 89-94
CountSplit1 ==
    /\ pc = "split1"
    /\ LET counts == strata.full
           n == Sum(counts, DOMAIN counts)
       IN  IF SplitRaises(counts, NTrain(n, 3, 10), NTest(n, 3, 10))
           THEN pc' = "ValueError" /\ UNCHANGED strata
           ELSE /\ \E a \in FirstSplitAllocations(counts) :
                     strata' = [strata EXCEPT
                                  !.train = Present(a),
                                  !.temp = Present([c \in DOMAIN counts |->
                                                      counts[c] - a[c]])]
                /\ pc' = "split2"
    /\ UNCHANGED <<df, train_idx, temp_idx, val_idx, test_idx, df_train,
                   df_val, df_test, median_bmi, k, le, fs, given, vocab, first>>

\* lines 96-101
CountSplit2 ==
    /\ pc = "split2"
    /\ LET counts == strata.temp
           n == Sum(counts, DOMAIN counts)
       IN  IF SplitRaises(counts, NTrain(n, 1, 2), NTest(n, 1, 2))
           THEN pc' = "ValueError" /\ UNCHANGED strata
           ELSE /\ \E a \in SecondSplitAllocations(counts) :
                     strata' = [strata EXCEPT
                                  !.val = Present(a),
                                  !.test = Present([c \in DOMAIN counts |->
                                                      counts[c] - a[c]])]
                /\ pc' = "drop"
    /\ UNCHANGED <<df, train_idx, temp_idx, val_idx, test_idx, df_train,
                   df_val, df_test, median_bmi, k, le, fs, given, vocab, first>>

NextStrat == CountSplit1 \/ CountSplit2

SpecStrat == InitStrat /\ [][NextStrat]_vars

(***************************************************************************)
(* Properties                                                              *)
(***************************************************************************)
ColIdx(c) == CHOOSE j \in 1..Len(cat_multi) : cat_multi[j] = c

\* the column c of a partition holds the codes of apply_label_encoding
TrainEncoded(c) ==
    /\ given # Unassigned
    /\ HasColumn(given.train, c)
    /\ ColIdx(c) < k \/ (ColIdx(c) = k /\ pc \in {"loop_val", "loop_test"})

ValEncoded(c) ==
    /\ given # Unassigned
    /\ HasColumn(given.train, c)
    /\ ColIdx(c) < k \/ (ColIdx(c) = k /\ pc = "loop_test")

TestEncoded(c) ==
    /\ given # Unassigned
    /\ HasColumn(given.train, c)
    /\ ColIdx(c) < k

\* an encoder is fitted and apply_label_encoding has not returned
InEncoding == pc \in {"transform_train", "loop_val", "loop_test"}

\* C1: once the two splits are made, train, validation and test are pairwise
\* disjoint sets of rows of the input and their union is all its rows; the
\* three frames built from them hold exactly these rows.
C1_SplitPartitionsRows ==
    (pc = "drop" \/ given # Unassigned) /\ df # Unassigned =>
        /\ train_idx \cap val_idx = {}
        /\ train_idx \cap test_idx = {}
        /\ val_idx \cap test_idx = {}
        /\ train_idx \cup val_idx \cup test_idx = DOMAIN df.data
        /\ given # Unassigned =>
              /\ DOMAIN df_train.data = train_idx
              /\ DOMAIN df_val.data = val_idx
              /\ DOMAIN df_test.data = test_idx

C1_Witness ==
    /\ pc = "done"
    /\ Cardinality(train_idx) >= 2
    /\ Cardinality(val_idx) >= 2
    /\ Cardinality(test_idx) >= 2

\* C2: in a second run on the same training partition and other validation
\* and test partitions, the median of bmi and the classes fitted for each
\* label-encoded column are those of the first run.
C2_NoLeak ==
    (first # Unassigned /\ given.train = first.train) =>
        /\ (pc # "impute" /\ HasColumn(df_train, "bmi")) =>
              median_bmi = first.median_bmi
        /\ \A c \in Range(cat_multi) :
              vocab[c] # <<>> => vocab[c] = first.vocab[c]
        /\ pc = "binarise" => le = first.le

C2_Witness ==
    /\ first # Unassigned
    /\ first.differs
    /\ pc = "binarise"
    /\ \/ HasColumn(df_train, "bmi") /\ median_bmi # NaN
       \/ \E c \in Range(cat_multi) : Len(vocab[c]) >= 2

\* C3: the encoding raises no error; a validation or test cell whose string
\* is not in the classes fitted on train is encoded as -1; the codes of
\* train are in 0..k-1 and those of validation and test in -1..k-1, for k
\* fitted classes.
C3_UnseenIsSentinel ==
    /\ pc # "ValueError"
    /\ \A c \in Range(cat_multi) :
         LET kk == Len(vocab[c])
         IN  /\ TrainEncoded(c) =>
                  \A i \in DOMAIN df_train.data :
                      df_train.data[i][c] \in 0..(kk - 1)
             /\ ValEncoded(c) =>
                  \A i \in DOMAIN df_val.data :
                      /\ df_val.data[i][c] \in (-1)..(kk - 1)
                      /\ Unseen(vocab[c], str(given.val.data[i][c])) =>
                            df_val.data[i][c] = -1
             /\ TestEncoded(c) =>
                  \A i \in DOMAIN df_test.data :
                      /\ df_test.data[i][c] \in (-1)..(kk - 1)
                      /\ Unseen(vocab[c], str(given.test.data[i][c])) =>
                            df_test.data[i][c] = -1

C3_Witness ==
    \E c \in Range(cat_multi) :
        /\ TestEncoded(c)
        /\ Len(vocab[c]) >= 2
        /\ \E i \in DOMAIN df_val.data :
              /\ Unseen(vocab[c], str(given.val.data[i][c]))
              /\ df_val.data[i][c] = -1
        /\ \E i \in DOMAIN df_test.data :
              /\ Unseen(vocab[c], str(given.test.data[i][c]))
              /\ df_test.data[i][c] = -1

\* C4: a cell of validation or test that equals a cell of the training
\* column (a missing cell and "UNK" included) is encoded as the position of
\* its string in the sorted classes fitted on train, as it is in train, and
\* never as -1.
C4_KnownKeepsCode ==
    \A c \in Range(cat_multi) :
        /\ TrainEncoded(c) =>
             \A i \in DOMAIN df_train.data :
                 df_train.data[i][c] =
                     transform(vocab[c], str(given.train.data[i][c]))
        /\ ValEncoded(c) =>
             \A i \in DOMAIN df_val.data :
                 given.val.data[i][c] \in Range(Column(given.train, c)) =>
                     /\ df_val.data[i][c] # -1
                     /\ df_val.data[i][c] =
                           transform(vocab[c], str(given.val.data[i][c]))
        /\ TestEncoded(c) =>
             \A i \in DOMAIN df_test.data :
                 given.test.data[i][c] \in Range(Column(given.train, c)) =>
                     /\ df_test.data[i][c] # -1
                     /\ df_test.data[i][c] =
                           transform(vocab[c], str(given.test.data[i][c]))

\* C5: when the two splits are made on a binary target, the share of
\* positive rows of train, of validation and of test is within 2 percentage
\* points of the share of positive rows of the whole table.
PositivesOf(counts) == IF 1 \in DOMAIN counts THEN counts[1] ELSE 0

SizeOf(counts) == Sum(counts, DOMAIN counts)

WithinTwoPoints(part, full) ==
    LET d == PositivesOf(part) * SizeOf(full) - PositivesOf(full) * SizeOf(part)
    IN  (IF d < 0 THEN 0 - d ELSE d) * 50 <= SizeOf(part) * SizeOf(full)

C5_StratificationTolerance ==
    (strata # Unassigned /\ pc = "drop") =>
        /\ WithinTwoPoints(strata.train, strata.full)
        /\ WithinTwoPoints(strata.val, strata.full)
        /\ WithinTwoPoints(strata.test, strata.full)

C5_Witness ==
    /\ strata # Unassigned
    /\ pc = "drop"
    /\ SizeOf(strata.full) = ExampleRows
    /\ PositivesOf(strata.full) = 249
    /\ PositivesOf(strata.val) # PositivesOf(strata.test)

\* C6: the three frames, and the three files written from them, have the
\* same column names in the same order.
C6_SchemaParity ==
    /\ given # Unassigned =>
          /\ df_train.columns = df_val.columns
          /\ df_val.columns = df_test.columns
    /\ \A i, j \in 1..Len(fs.files) :
          fs.files[i].frame.columns = fs.files[j].frame.columns

C6_Witness ==
    /\ pc = "done"
    /\ Len(fs.files) = 3
    /\ Len(fs.files[1].frame.columns) >= 2
    /\ ~HasColumn(df, "bmi")

\* C7: when every bmi cell of the training partition is missing, the run
\* goes on and, once the imputation is done, no bmi cell of train,
\* validation or test is missing.
C7_AllMissingFallsBack ==
    (/\ given # Unassigned
     /\ HasColumn(given.train, "bmi")
     /\ \A i \in DOMAIN given.train.data : given.train.data[i]["bmi"] = NaN
     /\ pc # "impute") =>
        /\ pc \notin {"ValueError", "KeyError"}
        /\ \A i \in DOMAIN df_train.data : df_train.data[i]["bmi"] # NaN
        /\ \A i \in DOMAIN df_val.data : df_val.data[i]["bmi"] # NaN
        /\ \A i \in DOMAIN df_test.data : df_test.data[i]["bmi"] # NaN

\* C8: when the table read has no target column, main stops with
\* ValueError at the check that follows the read: no split is made, the
\* output directory is not created and no file is written.
C8_TargetAbsentFailsEarly ==
    (df # Unassigned /\ ~HasColumn(df, TARGET_COLUMN)) =>
        /\ pc \in {"check_target", "ValueError"}
        /\ train_idx = {} /\ temp_idx = {} /\ val_idx = {} /\ test_idx = {}
        /\ given = Unassigned
        /\ fs = NoFs

C8_Witness ==
    /\ df # Unassigned
    /\ ~HasColumn(df, TARGET_COLUMN)
    /\ pc = "ValueError"

\* C9: once calculate_median_and_impute has imputed bmi in train,
\* apply_impute on train with the median it returned changes no cell.
C9_ImputeIdempotent ==
    (given # Unassigned /\ pc # "impute" /\ HasColumn(df_train, "bmi")) =>
        apply_impute(df_train, "bmi", median_bmi) = df_train

C9_Witness ==
    /\ given # Unassigned
    /\ pc # "impute"
    /\ HasColumn(df_train, "bmi")
    /\ \E i \in DOMAIN df_train.data :
          /\ given.train.data[i]["bmi"] = NaN
          /\ df_train.data[i]["bmi"] # NaN
    /\ \E i \in DOMAIN df_train.data : given.train.data[i]["bmi"] # NaN

====
